---- MODULE Spec2Model ----
(***************************************************************************)
(* Model of the emitter pipeline: main spawns one emit_logs task per       *)
(* configured service, the tasks send LogEntry values over a bounded mpsc  *)
(* channel, and Buffer::run batches them and hands each batch to every     *)
(* registered sink.                                                        *)
(***************************************************************************)
EXTENDS Integers, Sequences, FiniteSets, TLC

\* ------------------------------------------------------------------ bounds
MaxServices == 2
\* logs generated in one run, over all services
MaxEvents == 3
MaxCapacity == 2
MaxInterval == 2
MaxDuration == 1
MaxTime == 2
\* mpsc::channel(10_000) of main.rs, scaled down so that a full channel happens
ChannelCapacity == 2
\* largest level weight
MaxWeight == 2
\* largest embedding dimension
MaxDim == 2
\* largest rate_per_sec
MaxRate == 10
\* largest batch handed to DashboardSink::write
MaxBatch == 2
\* longest input of expand_env_vars
MaxLen == 4

VARIABLES
    quota,      \* logs the run may generate in all (keeps the run finite)
    horizon,    \* the last instant of the clock (keeps the run finite)
    cfg,        \* EmitterConfig: buffer_size, flush_interval_ms, run_duration_secs, services, sinks
    now,        \* the clock read by Instant::now()
    mainPc,     \* main: "spawn" | "run"
    spawned,    \* main: number of services whose task has been spawned
    prod,       \* emit_logs tasks: [pc, start, seq, sent]; seq counts the logs generated,
                \* sent (history) the sends that completed
    chan,       \* events sent and not yet received, oldest first
    cpc,        \* Buffer::run: "idle" | "wait" | "flush" | "done" | "panicked"
    entries,    \* Buffer::run: the pending batch
    last_flush, \* Buffer::run: last_flush
    deadline,   \* the instant at which the timeout of the current wait elapses
    fl,         \* Buffer::flush in progress: [batch, idx, trigger]
    flushed,    \* history: every batch detached by Buffer::flush: [batch, trigger, at]
    sinkLog,    \* history: per sink, the batches its write was called with
    received,   \* history: events in the order rx.recv() returned them
    reported,   \* history: number of "Sink error" lines printed
    gen         \* the function under study in the specifications of single functions:
                \* for generate_log [weights, roll, level], the last severity draw

vars == <<gen, quota, horizon, cfg, now, mainPc, spawned, prod, chan, cpc, entries, last_flush,
          deadline, fl, flushed, sinkLog, received, reported>>

\* ------------------------------------------------------------------ data
SinkKinds == {"Stdout", "Dashboard", "Pgvector", "ElasticSearch", "Qdrant"}

\* The sink lists the model is run with (the `sinks` entries of the configuration).
SinkSets == { <<"Pgvector", "Stdout">>,
              <<"Dashboard", "Pgvector">>,
              <<"ElasticSearch", "Stdout">>,
              <<"Qdrant", "Dashboard">> }

Services == 1..MaxServices

Levels == <<"Debug", "Info", "Warn", "Error">>

LevelWeights == [debug : 0..MaxWeight, info : 0..MaxWeight, warn : 0..MaxWeight, error : 0..MaxWeight]

\* No severity drawn yet
NoDraw(w) == [weights |-> w, roll |-> 0, level |-> "none"]

NoFlush == [batch |-> <<>>, idx |-> 0, trigger |-> "none"]

\* as if the timeout were the plain difference
PlainSub(a, b) == a - b

\* Duration::saturating_sub
SaturatingSub(a, b) == IF a > b THEN a - b ELSE 0

\* as if the timer ran anew from the start of each wait
WaitTimeoutFromNow(lf) == cfg.flush_interval

\* buffer.rs:33  self.flush_interval.saturating_sub(last_flush.elapsed())
WaitTimeout(lf) == SaturatingSub(cfg.flush_interval, now - lf)

\* as if main kept its own tx while the buffer runs
SendersWithMain == 1 + Cardinality({p \in Services : prod[p].pc \in {"spawned", "send", "sleep"}})

\* Sender handles alive: main's tx until drop(tx), one clone per unfinished task
Senders == (IF mainPc = "spawn" THEN 1 ELSE 0)
           + Cardinality({p \in Services : prod[p].pc \in {"spawned", "send", "sleep"}})

\* as if the receiver existed only while Buffer::run is executing
RxAliveInRun == cpc \in {"wait", "flush"}

\* The receiver lives in the Buffer, which main owns until run panics
RxAlive == cpc # "panicked"

\* as if a zero duration were an ordinary duration
KeepRunningTimed(start) == now - start < cfg.duration

\* emitter.rs:229  duration.is_zero() || start.elapsed() < duration
KeepRunning(start) == cfg.duration = 0 \/ now - start < cfg.duration

\* ------------------------------------------------------------------ init
\* The state main has built when it creates the channel (main.rs:115)
Start ==
    /\ now = 0
    /\ mainPc = "spawn"
    /\ spawned = 0
    /\ prod = [p \in Services |-> [pc |-> "unspawned", start |-> 0, seq |-> 0, sent |-> 0]]
    /\ chan = <<>>
    /\ cpc = "idle"
    /\ entries = <<>>
    /\ last_flush = 0
    /\ deadline = 0
    /\ fl = NoFlush
    /\ flushed = <<>>
    /\ sinkLog = [i \in 1..Len(cfg.sinks) |-> <<>>]
    /\ received = <<>>
    /\ reported = 0

Init ==
    /\ gen = NoDraw([debug |-> 1, info |-> 1, warn |-> 1, error |-> 1])
    /\ quota = MaxEvents
    /\ horizon = MaxTime
    /\ cfg \in [capacity : 1..MaxCapacity,
                flush_interval : 1..MaxInterval,
                duration : 0..MaxDuration,
                services : 0..MaxServices,
                sinks : SinkSets]
    /\ Start

\* ------------------------------------------------------------------ clock
Tick ==
    /\ now < horizon
    /\ now' = now + 1
    /\ UNCHANGED <<gen, quota, horizon, cfg, mainPc, spawned, prod, chan, cpc, entries, last_flush,
                   deadline, fl, flushed, sinkLog, received, reported>>

\* ------------------------------------------------------------------ main
consumerVars == <<cpc, entries, last_flush, deadline, fl, flushed, sinkLog, received, reported>>

\* main.rs:117-124  tokio::spawn(emit_logs(service, tx.clone(), ...))
Spawn ==
    /\ mainPc = "spawn"
    /\ spawned < cfg.services
    /\ spawned' = spawned + 1
    /\ prod' = [prod EXCEPT ![spawned + 1].pc = "spawned"]
    /\ UNCHANGED <<gen, quota, horizon, cfg, now, mainPc, chan>>
    /\ UNCHANGED consumerVars

\* main.rs:125-135  drop(tx); Buffer::new(..); buffer.run()  up to the first wait
\* buffer.rs:29-33
RunStart ==
    /\ mainPc = "spawn"
    /\ spawned = cfg.services
    /\ mainPc' = "run"
    /\ cpc' = "wait"
    /\ entries' = <<>>
    /\ last_flush' = now
    /\ deadline' = now + WaitTimeout(now)
    /\ UNCHANGED <<gen, quota, horizon, cfg, now, spawned, prod, chan, fl, flushed, sinkLog, received, reported>>

\* ------------------------------------------------------------------ emit_logs
RECURSIVE SumSeq(_, _)
SumSeq(f, n) == IF n = 0 THEN 0 ELSE f[n].seq + SumSeq(f, n - 1)

\* Number of logs generated so far by all tasks
Generated == SumSeq(prod, MaxServices)

RECURSIVE SumSent(_, _)
SumSent(f, n) == IF n = 0 THEN 0 ELSE f[n].sent + SumSent(f, n - 1)

\* The loop head of emit_logs for task p whose start instant is `start`:
\* either generate the next log and attempt the send, or leave the loop.
LoopHead(p, start) ==
    IF KeepRunning(start)
    THEN /\ Generated < quota
         /\ prod' = [prod EXCEPT ![p].pc = "send", ![p].start = start, ![p].seq = @ + 1]
    ELSE prod' = [prod EXCEPT ![p].pc = "done", ![p].start = start]

\* emitter.rs:225-230  first poll of the task
ProdStart(p) ==
    /\ prod[p].pc = "spawned"
    /\ LoopHead(p, now)
    /\ UNCHANGED <<gen, quota, horizon, cfg, now, mainPc, spawned, chan>>
    /\ UNCHANGED consumerVars

\* as if a send had to wait for the flush in progress to return
ProdSendAfterFlush(p) ==
    /\ prod[p].pc = "send"
    /\ RxAlive
    /\ cpc # "flush"
    /\ Len(chan) < ChannelCapacity
    /\ chan' = Append(chan, <<p, prod[p].seq>>)
    /\ prod' = [prod EXCEPT ![p].pc = "sleep", ![p].sent = @ + 1]
    /\ UNCHANGED <<gen, quota, horizon, cfg, now, mainPc, spawned>>
    /\ UNCHANGED consumerVars

\* emitter.rs:231-238  tx.send(log) completes; the task sleeps delay_ms
ProdSend(p) ==
    /\ prod[p].pc = "send"
    /\ RxAlive
    /\ Len(chan) < ChannelCapacity
    /\ chan' = Append(chan, <<p, prod[p].seq>>)
    /\ prod' = [prod EXCEPT ![p].pc = "sleep", ![p].sent = @ + 1]
    /\ UNCHANGED <<gen, quota, horizon, cfg, now, mainPc, spawned>>
    /\ UNCHANGED consumerVars

\* as if a failed send were followed by the sleep and the next iteration
ProdSendFailSleeps(p) ==
    /\ prod[p].pc = "send"
    /\ ~RxAlive
    /\ prod' = [prod EXCEPT ![p].pc = "sleep"]
    /\ UNCHANGED <<gen, quota, horizon, cfg, now, mainPc, spawned, chan>>
    /\ UNCHANGED consumerVars

\* emitter.rs:231-233  tx.send(log) fails: the receiver is gone; break
ProdSendFail(p) ==
    /\ prod[p].pc = "send"
    /\ ~RxAlive
    /\ prod' = [prod EXCEPT ![p].pc = "done"]
    /\ UNCHANGED <<gen, quota, horizon, cfg, now, mainPc, spawned, chan>>
    /\ UNCHANGED consumerVars

\* emitter.rs:236-238, 229  the sleep of delay_ms >= 0 ends (delay_ms is any value the
\* draw of u can give, so the task may wake at any instant from now on) and the loop
\* condition is evaluated
ProdWake(p) ==
    /\ prod[p].pc = "sleep"
    /\ LoopHead(p, prod[p].start)
    /\ UNCHANGED <<gen, quota, horizon, cfg, now, mainPc, spawned, chan>>
    /\ UNCHANGED consumerVars

\* ------------------------------------------------------------------ Buffer::run
\* as if the flush ran as a task of its own while the loop went on
WaitingOrFlushing == cpc \in {"wait", "flush"}

\* buffer.rs:35  the consumer is suspended in timeout(timeout, rx.recv())
Waiting == cpc = "wait"

PushFront(batch, entry) == <<entry>> \o batch

\* buffer.rs:37  entries.push(entry)
Push(batch, entry) == Append(batch, entry)

CapacityReachedLate(batch) == Len(batch) > cfg.capacity

\* buffer.rs:38  entries.len() >= self.capacity
CapacityReached(batch) == Len(batch) >= cfg.capacity

PendingMoreThanOne == Len(entries) > 1

PendingAlways == TRUE

\* buffer.rs:45, 52  !entries.is_empty()
Pending == entries # <<>>

\* buffer.rs:35  recv() yields an event whenever one is queued
RecvReady == chan # <<>>

\* buffer.rs:35  recv() yields None: nothing queued and every sender released
RecvClosed == chan = <<>> /\ Senders = 0

\* buffer.rs:35  the timeout elapses while recv() is still pending
TimerExpired == chan = <<>> /\ Senders > 0 /\ now >= deadline

\* as if flush handed the sinks a copy and left the batch in place
BeginFlushKeepsEntries(batch, trigger) ==
    /\ entries' = batch
    /\ fl' = [batch |-> batch, idx |-> 1, trigger |-> trigger]
    /\ flushed' = Append(flushed, [batch |-> batch, trigger |-> trigger, at |-> now])
    /\ cpc' = "flush"

\* buffer.rs:61-63  mem::replace(entries, Vec::new()) and the call of the first sink
BeginFlush(batch, trigger) ==
    /\ entries' = <<>>
    /\ fl' = [batch |-> batch, idx |-> 1, trigger |-> trigger]
    /\ flushed' = Append(flushed, [batch |-> batch, trigger |-> trigger, at |-> now])
    /\ cpc' = "flush"

\* buffer.rs:33  the next iteration computes its timeout from last_flush `lf`
NextWait(lf) ==
    /\ cpc' = "wait"
    /\ last_flush' = lf
    /\ deadline' = now + WaitTimeout(lf)

\* buffer.rs:36-42  Ok(Some(entry)), batch below capacity
RecvAppend ==
    /\ Waiting
    /\ RecvReady
    /\ ~CapacityReached(Push(entries, Head(chan)))
    /\ chan' = Tail(chan)
    /\ received' = Append(received, Head(chan))
    /\ entries' = Push(entries, Head(chan))
    /\ NextWait(last_flush)
    /\ UNCHANGED <<gen, quota, horizon, cfg, now, mainPc, spawned, prod, fl, flushed, sinkLog, reported>>

\* buffer.rs:36-40  Ok(Some(entry)), batch at capacity: flush
RecvFlush ==
    /\ Waiting
    /\ RecvReady
    /\ CapacityReached(Push(entries, Head(chan)))
    /\ chan' = Tail(chan)
    /\ received' = Append(received, Head(chan))
    /\ BeginFlush(Push(entries, Head(chan)), "capacity")
    /\ UNCHANGED <<gen, quota, horizon, cfg, now, mainPc, spawned, prod, last_flush, deadline, sinkLog, reported>>

\* as if the closed arm flushed without looking at entries
ClosedFlushAlways ==
    /\ Waiting
    /\ RecvClosed
    /\ BeginFlush(entries, "drain")
    /\ UNCHANGED <<gen, quota, horizon, cfg, now, mainPc, spawned, prod, chan, last_flush, deadline,
                   sinkLog, received, reported>>

\* buffer.rs:43-49  Ok(None) with pending entries: flush, then break
ClosedFlush ==
    /\ Waiting
    /\ RecvClosed
    /\ Pending
    /\ BeginFlush(entries, "drain")
    /\ UNCHANGED <<gen, quota, horizon, cfg, now, mainPc, spawned, prod, chan, last_flush, deadline,
                   sinkLog, received, reported>>

\* buffer.rs:43-49  Ok(None) with nothing pending: break
ClosedEmpty ==
    /\ Waiting
    /\ RecvClosed
    /\ ~Pending
    /\ cpc' = "done"
    /\ UNCHANGED <<gen, quota, horizon, cfg, now, mainPc, spawned, prod, chan, entries, last_flush, deadline,
                   fl, flushed, sinkLog, received, reported>>

\* buffer.rs:50-55  Err(_) with pending entries: flush
TimeoutFlush ==
    /\ Waiting
    /\ TimerExpired
    /\ Pending
    /\ BeginFlush(entries, "timeout")
    /\ UNCHANGED <<gen, quota, horizon, cfg, now, mainPc, spawned, prod, chan, last_flush, deadline,
                   sinkLog, received, reported>>

\* as if an empty timeout restarted the flush timer
TimeoutEmptyResets ==
    /\ Waiting
    /\ TimerExpired
    /\ ~Pending
    /\ NextWait(now)
    /\ UNCHANGED <<gen, quota, horizon, cfg, now, mainPc, spawned, prod, chan, entries, fl, flushed,
                   sinkLog, received, reported>>

\* buffer.rs:50-56  Err(_) with nothing pending: next iteration
TimeoutEmpty ==
    /\ Waiting
    /\ TimerExpired
    /\ ~Pending
    /\ NextWait(last_flush)
    /\ UNCHANGED <<gen, quota, horizon, cfg, now, mainPc, spawned, prod, chan, entries, fl, flushed,
                   sinkLog, received, reported>>

\* ------------------------------------------------------------------ Buffer::flush, sinks
\* What a write of each sink can end in: "ok" for Ok(()), "err" for Err(e), "panic".
\* sink/mod.rs:29-45  StdoutSink::write logs each entry and returns Ok(())
StdoutWrite == {"ok"}

\* dashboard.rs:45-75  DashboardSink::write ignores the broadcast error, returns Ok(())
DashboardWrite == {"ok"}

\* pgvector.rs:144-154  execute(&self.pool).await? returns the backend's error
PgvectorWrite == {"ok", "err"}

\* elasticsearch.rs:106-113  send().await.expect("Failed to write logs to Elasticsearch")
ElasticSearchWrite == {"ok", "panic"}

\* qdrant.rs:112-141  upsert_points(..).await.unwrap()
QdrantWrite == {"ok", "panic"}

\* sink/mod.rs:17-23  dyn Sink dispatch of write
WriteOutcomes(kind) ==
    CASE kind = "Stdout" -> StdoutWrite
      [] kind = "Dashboard" -> DashboardWrite
      [] kind = "Pgvector" -> PgvectorWrite
      [] kind = "ElasticSearch" -> ElasticSearchWrite
      [] kind = "Qdrant" -> QdrantWrite

\* as if flush picked any registered sink next
WritingAnySink(i) == cpc = "flush" /\ fl.idx \in 1..Len(cfg.sinks) /\ i \in 1..Len(cfg.sinks)

\* buffer.rs:63-64  the for loop is at sink i: sink.write(&batch) is called and awaited
Writing(i) == cpc = "flush" /\ fl.idx = i /\ i \in 1..Len(cfg.sinks)

Logged(i) == sinkLog' = [sinkLog EXCEPT ![i] = Append(@, fl.batch)]

\* buffer.rs:63-64  sink.write(&batch) returns Ok(())
SinkOk(i) ==
    /\ Writing(i)
    /\ "ok" \in WriteOutcomes(cfg.sinks[i])
    /\ Logged(i)
    /\ fl' = [fl EXCEPT !.idx = i + 1]
    /\ UNCHANGED <<gen, quota, horizon, cfg, now, mainPc, spawned, prod, chan, cpc, entries, last_flush,
                   deadline, flushed, received, reported>>

\* as if a failed write were tried again
SinkErrRetries(i) ==
    /\ Writing(i)
    /\ "err" \in WriteOutcomes(cfg.sinks[i])
    /\ Logged(i)
    /\ reported' = reported + 1
    /\ UNCHANGED <<gen, quota, horizon, cfg, now, mainPc, spawned, prod, chan, cpc, entries, last_flush,
                   deadline, fl, flushed, received>>

\* as if the error were propagated with `?`: the remaining sinks are skipped
SinkErrReturns(i) ==
    /\ Writing(i)
    /\ "err" \in WriteOutcomes(cfg.sinks[i])
    /\ Logged(i)
    /\ reported' = reported + 1
    /\ fl' = [fl EXCEPT !.idx = Len(cfg.sinks) + 1]
    /\ UNCHANGED <<gen, quota, horizon, cfg, now, mainPc, spawned, prod, chan, cpc, entries, last_flush,
                   deadline, flushed, received>>

\* buffer.rs:64-66  sink.write(&batch) returns Err(e): eprintln!, next sink
SinkErr(i) ==
    /\ Writing(i)
    /\ "err" \in WriteOutcomes(cfg.sinks[i])
    /\ Logged(i)
    /\ reported' = reported + 1
    /\ fl' = [fl EXCEPT !.idx = i + 1]
    /\ UNCHANGED <<gen, quota, horizon, cfg, now, mainPc, spawned, prod, chan, cpc, entries, last_flush,
                   deadline, flushed, received>>

\* elasticsearch.rs:111, qdrant.rs:140  the write panics: run unwinds through main,
\* dropping the Buffer with its receiver and the events still queued
SinkPanic(i) ==
    /\ Writing(i)
    /\ "panic" \in WriteOutcomes(cfg.sinks[i])
    /\ Logged(i)
    /\ cpc' = "panicked"
    /\ chan' = <<>>
    /\ UNCHANGED <<gen, quota, horizon, cfg, now, mainPc, spawned, prod, entries, last_flush,
                   deadline, fl, flushed, received, reported>>

\* as if last_flush were left alone after a flush
FlushReturnKeepsTime ==
    /\ cpc = "flush"
    /\ fl.idx > Len(cfg.sinks)
    /\ fl.trigger # "drain"
    /\ fl' = NoFlush
    /\ NextWait(last_flush)
    /\ UNCHANGED <<gen, quota, horizon, cfg, now, mainPc, spawned, prod, chan, entries, flushed,
                   sinkLog, received, reported>>

\* buffer.rs:40, 54  flush returned to the capacity or timeout arm: last_flush = now
FlushReturnLoop ==
    /\ cpc = "flush"
    /\ fl.idx > Len(cfg.sinks)
    /\ fl.trigger # "drain"
    /\ fl' = NoFlush
    /\ NextWait(now)
    /\ UNCHANGED <<gen, quota, horizon, cfg, now, mainPc, spawned, prod, chan, entries, flushed,
                   sinkLog, received, reported>>

\* buffer.rs:46-48  flush returned to the closed arm: break
FlushReturnBreak ==
    /\ cpc = "flush"
    /\ fl.idx > Len(cfg.sinks)
    /\ fl.trigger = "drain"
    /\ fl' = NoFlush
    /\ cpc' = "done"
    /\ UNCHANGED <<gen, quota, horizon, cfg, now, mainPc, spawned, prod, chan, entries, last_flush, deadline,
                   flushed, sinkLog, received, reported>>

\* buffer.rs:63  for sink in &self.sinks
SinkIds == 1..Len(cfg.sinks)

Next ==
    \/ Tick
    \/ Spawn
    \/ RunStart
    \/ \E p \in Services : ProdStart(p)
    \/ \E p \in Services : ProdSend(p)
    \/ \E p \in Services : ProdSendFail(p)
    \/ \E p \in Services : ProdWake(p)
    \/ RecvAppend
    \/ RecvFlush
    \/ ClosedFlush
    \/ ClosedEmpty
    \/ TimeoutFlush
    \/ TimeoutEmpty
    \/ \E i \in SinkIds : SinkOk(i)
    \/ \E i \in SinkIds : SinkErr(i)
    \/ \E i \in SinkIds : SinkPanic(i)
    \/ FlushReturnLoop
    \/ FlushReturnBreak

Spec == Init /\ [][Next]_vars

\* ------------------------------------------------------------------ properties
RECURSIVE Flat(_)
\* The concatenation of the batches of a flush history, in flush order
Flat(fs) == IF fs = <<>> THEN <<>> ELSE fs[1].batch \o Flat(Tail(fs))

Occurrences(e, sq) == Cardinality({i \in 1..Len(sq) : sq[i] = e})

Events == Services \X (1..quota)

RunReturned == cpc = "done"

\* C1: when Buffer::run has returned, every event whose send completed is in exactly
\* one flushed batch and nothing else is: the batch sizes sum to the number of sends
\* that completed.
NoLossNoDuplication ==
    RunReturned =>
        /\ \A e \in Events :
              Occurrences(e, Flat(flushed)) = IF e[2] <= prod[e[1]].sent THEN 1 ELSE 0
        /\ Len(Flat(flushed)) = SumSent(prod, MaxServices)

\* C1 witness: a run that returned after both services sent, with two flushes
NoLossWitness ==
    /\ RunReturned
    /\ Len(flushed) >= 2
    /\ \A p \in Services : prod[p].sent >= 1

\* C2 as stated: every flushed batch but the last has size exactly capacity, the
\* last has size in [1, capacity].
AllButLastFull ==
    \A i \in 1..Len(flushed) :
        IF i < Len(flushed)
        THEN Len(flushed[i].batch) = cfg.capacity
        ELSE Len(flushed[i].batch) \in 1..cfg.capacity

\* C2 amended: a capacity-triggered batch has size exactly capacity; a batch flushed
\* on a timeout and the drain batch have size in [1, capacity]; the drain batch is
\* the last one, and at most one exists.
BatchSizing ==
    \A i \in 1..Len(flushed) :
        /\ flushed[i].trigger = "capacity" => Len(flushed[i].batch) = cfg.capacity
        /\ flushed[i].trigger \in {"timeout", "drain"}
              => Len(flushed[i].batch) \in 1..cfg.capacity
        /\ flushed[i].trigger = "drain" => i = Len(flushed)

\* C2 witness: a timeout batch below capacity followed by a full batch, in a run
\* that returned
BatchSizingWitness ==
    /\ RunReturned
    /\ Len(flushed) = 2
    /\ flushed[1].trigger = "timeout"
    /\ Len(flushed[1].batch) < cfg.capacity
    /\ flushed[2].trigger = "capacity"
\* Number of flushes for which the write of sink i has been called and has ended
WritesEnded(i) ==
    IF cpc \in {"flush", "panicked"} /\ fl.idx <= i
    THEN Len(flushed) - 1
    ELSE Len(flushed)

\* Sink i has been handed every batch flushed so far, whole and in flush order
Delivered(i) ==
    /\ Len(sinkLog[i]) = WritesEnded(i)
    /\ \A n \in 1..Len(sinkLog[i]) : sinkLog[i][n] = flushed[n].batch

\* The sinks whose write can only return Ok(())
Succeeding == {i \in 1..Len(cfg.sinks) : WriteOutcomes(cfg.sinks[i]) = {"ok"}}

\* The sinks whose write can return Err
Failing == {i \in 1..Len(cfg.sinks) : "err" \in WriteOutcomes(cfg.sinks[i])}

\* C3: with a sink whose every write so far returned Err (each one reported) and a
\* sink that always succeeds, in either registration order, the succeeding sink has
\* been handed every flushed batch whole and in order, and the consumer was not
\* stopped by the failures.
FailureIsolation ==
    \A f \in Failing : \A g \in Succeeding :
        reported = Len(sinkLog[f]) => Delivered(g) /\ cpc # "panicked"

\* C3 witness: the failing sink is registered first, failed on two batches, and the
\* succeeding sink received both before the run returned
FailureIsolationWitness ==
    /\ cfg.sinks = <<"Pgvector", "Stdout">>
    /\ RunReturned
    /\ reported = 2
    /\ Len(sinkLog[1]) = 2
    /\ Len(sinkLog[2]) = 2

\* C4: a failed backend request of ElasticSearchSink::write or QdrantSink::write does
\* not abort the consumer: every sink is still handed every flushed batch.
BackendFailureContained ==
    /\ cpc # "panicked"
    /\ \A i \in 1..Len(cfg.sinks) : Delivered(i)

\* C7: no sink write is invoked with an empty batch, and no flush detaches one.
NoEmptyBatch ==
    /\ \A i \in 1..Len(cfg.sinks) : \A n \in 1..Len(sinkLog[i]) : sinkLog[i][n] # <<>>
    /\ \A n \in 1..Len(flushed) : flushed[n].batch # <<>>
    /\ cpc = "flush" => fl.batch # <<>>

\* C7 witness: after the last flush a timeout fired with nothing pending (the wait
\* was recomputed later than last_flush + flush_interval) and the channel then
\* closed with nothing pending; no sink was invoked for either
NoEmptyBatchWitness ==
    /\ RunReturned
    /\ deadline > last_flush + cfg.flush_interval
    /\ Len(flushed) = 1
    /\ flushed[1].trigger = "capacity"
    /\ \A i \in 1..Len(cfg.sinks) : Len(sinkLog[i]) = 1

\* C8: the flushed batches, concatenated in flush order and followed by the pending
\* batch, are the events in the order the consumer received them; two events of
\* one service are flushed in the order they were generated.
ArrivalOrderKept ==
    /\ Flat(flushed) \o entries = received
    /\ \A a, b \in 1..Len(Flat(flushed)) :
          (a < b /\ Flat(flushed)[a][1] = Flat(flushed)[b][1])
              => Flat(flushed)[a][2] < Flat(flushed)[b][2]

\* C8 witness: two batches holding interleaved events of two services
ArrivalOrderWitness ==
    /\ Len(flushed) = 2
    /\ Len(Flat(flushed)) = 3
    /\ Flat(flushed)[1][1] # Flat(flushed)[2][1]
    /\ Flat(flushed)[1][1] = Flat(flushed)[3][1]
\* Every write call of every flush begun so far has ended
AllWritesEnded == \A i \in 1..Len(cfg.sinks) : Len(sinkLog[i]) = Len(flushed)

\* C9: whenever the consumer receives an event or starts a flush, no flush is in
\* flight: every sink call of every earlier flush has returned.
OneFlushInFlight ==
    [][(received' # received \/ flushed' # flushed)
          => (cpc = "wait" /\ fl = NoFlush /\ AllWritesEnded)]_vars

\* C9 witness: a second flush is in flight while a producer's event waits in the channel
OneFlushWitness ==
    /\ cpc = "flush"
    /\ Len(flushed) = 2
    /\ fl.idx = 2
    /\ chan # <<>>

\* C10: the loop of Buffer::run ends only on the closed-channel path: once it has
\* ended run has returned, every sender is released, nothing is queued or pending,
\* and every received event was flushed to every sink.
EndsOnlyOnClose ==
    cpc \notin {"idle", "wait", "flush"} =>
        /\ cpc = "done"
        /\ Senders = 0
        /\ chan = <<>>
        /\ entries = <<>>
        /\ Flat(flushed) = received
        /\ AllWritesEnded

\* ------------------------------------------------------------------ end-to-end scenario
\* capacity 3, a flush interval longer than the run, one service, five logs, one sink
InitEndToEnd ==
    /\ gen = NoDraw([debug |-> 1, info |-> 1, warn |-> 1, error |-> 1])
    /\ quota = 5
    /\ horizon = MaxTime
    /\ cfg = [capacity |-> 3, flush_interval |-> MaxTime + 1, duration |-> 1,
              services |-> 1, sinks |-> <<"Stdout">>]
    /\ Start

\* The steps of Next that this configuration enables: the timer never expires, the
\* Stdout sink only returns Ok(()) and the receiver outlives the senders.
NextEndToEnd ==
    \/ Tick
    \/ Spawn
    \/ RunStart
    \/ \E p \in Services : ProdStart(p)
    \/ \E p \in Services : ProdSend(p)
    \/ \E p \in Services : ProdWake(p)
    \/ RecvAppend
    \/ RecvFlush
    \/ ClosedFlush
    \/ ClosedEmpty
    \/ \E i \in SinkIds : SinkOk(i)
    \/ FlushReturnLoop
    \/ FlushReturnBreak

SpecEndToEnd == InitEndToEnd /\ [][NextEndToEnd]_vars

\* C5: when the service has sent five events and released its sender, and run has
\* returned, exactly two flushes took place: the first three events on the capacity
\* trigger, then the last two on channel close, each in send order.
EndToEnd ==
    (RunReturned /\ prod[1].sent = 5) =>
        /\ Len(flushed) = 2
        /\ flushed[1].batch = << <<1, 1>>, <<1, 2>>, <<1, 3>> >>
        /\ flushed[1].trigger = "capacity"
        /\ flushed[2].batch = << <<1, 4>>, <<1, 5>> >>
        /\ flushed[2].trigger = "drain"
        /\ sinkLog[1] = <<flushed[1].batch, flushed[2].batch>>

EndToEndWitness == RunReturned /\ prod[1].sent = 5 /\ Len(sinkLog[1]) = 2

\* ------------------------------------------------------------------ idle scenario
\* capacity 1000 (never reached), flush interval T = 1, one service that never stops
\* and sends two logs, the clock running one instant longer than in Spec
InitIdle ==
    /\ gen = NoDraw([debug |-> 1, info |-> 1, warn |-> 1, error |-> 1])
    /\ quota = 2
    /\ horizon = MaxTime + 1
    /\ cfg = [capacity |-> 1000, flush_interval |-> 1, duration |-> 0,
              services |-> 1, sinks |-> <<"Stdout">>]
    /\ Start

\* The steps of Next that this configuration enables
NextIdle ==
    \/ Tick
    \/ Spawn
    \/ RunStart
    \/ \E p \in Services : ProdStart(p)
    \/ \E p \in Services : ProdSend(p)
    \/ \E p \in Services : ProdWake(p)
    \/ RecvAppend
    \/ TimeoutFlush
    \/ TimeoutEmpty
    \/ \E i \in SinkIds : SinkOk(i)
    \/ FlushReturnLoop

SpecIdle == InitIdle /\ [][NextIdle]_vars

\* C6: (a) while the consumer waits with nothing pending and no event arrives, no
\* flush starts and no sink is invoked, whatever time passes; (b) when an event is
\* received the timer of the next wait expires at most T later; (c) a flush starts
\* only when the timer has expired and takes exactly the pending events, so a
\* single event that arrived alone is flushed alone, once.
IdleThenFlush ==
    /\ [][(Waiting /\ ~Pending /\ received' = received)
             => (flushed' = flushed /\ sinkLog' = sinkLog)]_vars
    /\ [][received' # received => deadline' <= now + cfg.flush_interval]_vars
    /\ [][flushed' # flushed
             => /\ TimerExpired
                /\ flushed' = Append(flushed, [batch |-> entries, trigger |-> "timeout",
                                               at |-> now])
                /\ entries' = <<>>]_vars
    /\ [](Len(sinkLog[1]) <= Len(flushed) /\ Len(flushed) <= Len(received))

\* C6 witness: a first flush at instant 1, no flush for 2 T, then the second event
\* flushed alone at instant 3; the sink was invoked exactly twice
IdleWitness ==
    /\ Len(flushed) = 2
    /\ flushed[1].at = 1
    /\ flushed[2].at = 3
    /\ flushed[2].batch = << <<1, 2>> >>
    /\ Len(sinkLog[1]) = 2

\* ------------------------------------------------------------------ termination
\* Non-zero run durations; the clock runs MaxDuration past the last instant at which a
\* task may take its start time, so that every duration can elapse.
InitLive ==
    /\ gen = NoDraw([debug |-> 1, info |-> 1, warn |-> 1, error |-> 1])
    /\ quota = MaxEvents
    /\ horizon = MaxTime + MaxDuration
    /\ cfg \in [capacity : 1..MaxCapacity,
                flush_interval : 1..MaxInterval,
                duration : 1..MaxDuration,
                services : 0..MaxServices,
                sinks : {<<"Pgvector", "Stdout">>, <<"ElasticSearch", "Stdout">>}]
    /\ Start

\* emitter.rs:226  every spawned task has read its start instant
AllStarted == \A p \in 1..cfg.services : prod[p].pc \notin {"unspawned", "spawned"}

\* The runs of the bounded model that a fair run of the program maps to: every task is
\* first polled by instant MaxTime, and before any task is woken from a sleep (so the
\* MaxEvents logs of the run include the first log of every task).
TickOn ==
    /\ now >= MaxTime => AllStarted
    /\ Tick

MainStep == Spawn \/ RunStart

ProdWakeOn(p) ==
    /\ AllStarted
    /\ ProdWake(p)

ProducerStep(p) == ProdStart(p) \/ ProdSend(p) \/ ProdSendFail(p) \/ ProdWakeOn(p)

ConsumerStep ==
    \/ RecvAppend
    \/ RecvFlush
    \/ ClosedFlush
    \/ ClosedEmpty
    \/ TimeoutFlush
    \/ TimeoutEmpty
    \/ \E i \in SinkIds : SinkOk(i)
    \/ \E i \in SinkIds : SinkErr(i)
    \/ \E i \in SinkIds : SinkPanic(i)
    \/ FlushReturnLoop
    \/ FlushReturnBreak

NextLive ==
    \/ TickOn
    \/ MainStep
    \/ \E p \in Services : ProducerStep(p)
    \/ ConsumerStep

\* Fair scheduling: time passes, and the runtime keeps polling main and every task that
\* can make progress; a sink write that was called ends.
FairLive ==
    /\ WF_vars(TickOn)
    /\ WF_vars(MainStep)
    /\ \A p \in Services : WF_vars(ProducerStep(p))
    /\ WF_vars(ConsumerStep)

SpecLive == InitLive /\ [][NextLive]_vars /\ FairLive

AllStopped == \A p \in 1..cfg.services : prod[p].pc = "done"

ChannelClosed == Senders = 0 /\ chan = <<>>

AllSentFlushed ==
    \A p \in Services : \A k \in 1..MaxEvents :
        Occurrences(<<p, k>>, Flat(flushed)) = (IF k <= prod[p].sent THEN 1 ELSE 0)

Terminated == AllStopped /\ ChannelClosed /\ AllSentFlushed /\ RunReturned

\* C11: under fair scheduling, with non-zero run durations, every behaviour in which no
\* sink write fails to return (none panics) reaches a state where every producer has
\* stopped, the channel is closed and empty, every event whose send completed is in a
\* flushed batch, and Buffer::run has returned; in particular producers suspended on a
\* full channel and the consumer do not block each other for ever.
EventuallyTerminates == <>(cpc = "panicked" \/ Terminated)

\* Two producers ended, the three events were flushed and the run returned
TerminatesWitness ==
    /\ Terminated
    /\ cfg.services = 2
    /\ SumSent(prod, MaxServices) = MaxEvents
    /\ now > MaxTime

\* ------------------------------------------------------------------ the channel
\* C12: the channel never holds more than ChannelCapacity events, and every event whose
\* send completed is either still queued or has been received by the consumer, once
\* (none is dropped or overwritten, so each one is received later).
ChannelDelivers ==
    /\ Len(chan) <= ChannelCapacity
    /\ \A p \in Services : \A k \in 1..MaxEvents :
           Occurrences(<<p, k>>, received \o chan) = (IF k <= prod[p].sent THEN 1 ELSE 0)

\* ------------------------------------------------------------------ pick_level
\* The weights are f64 in the code; the model takes whole weights, and a whole roll r
\* stands for every real roll in [r, r + 1), which compares alike with whole sums.

\* as if each bucket were closed on the right
PickLevelInclusive(w, roll) ==
    IF roll <= w.debug THEN "Debug"
    ELSE IF roll <= w.debug + w.info THEN "Info"
    ELSE IF roll <= w.debug + w.info + w.warn THEN "Warn"
    ELSE "Error"

\* as if each comparison used the level's own weight
PickLevelOwnWeight(w, roll) ==
    IF roll < w.debug THEN "Debug"
    ELSE IF roll < w.info THEN "Info"
    ELSE IF roll < w.warn THEN "Warn"
    ELSE "Error"

\* emitter.rs:243  total
Total(w) == w.debug + w.info + w.warn + w.error

\* emitter.rs:246-254  the if / else if chain of pick_level
PickLevel(w, roll) ==
    IF roll < w.debug THEN "Debug"
    ELSE IF roll < w.debug + w.info THEN "Info"
    ELSE IF roll < w.debug + w.info + w.warn THEN "Warn"
    ELSE "Error"

InitLevel ==
    /\ gen \in {NoDraw(w) : w \in LevelWeights}
    /\ quota = 0
    /\ horizon = 0
    /\ cfg = [capacity |-> 1, flush_interval |-> 1, duration |-> 1, services |-> 0, sinks |-> <<"Stdout">>]
    /\ Start

\* emitter.rs:203, 243-254  generate_log draws the severity: roll is uniform in [0, total)
DrawLevel ==
    /\ Total(gen.weights) > 0
    /\ \E roll \in 0..(Total(gen.weights) - 1) :
           gen' = [gen EXCEPT !.roll = roll, !.level = PickLevel(gen.weights, roll)]
    /\ UNCHANGED <<quota, horizon, cfg, now, mainPc, spawned, prod, chan>>
    /\ UNCHANGED consumerVars

\* emitter.rs:244  gen_range panics on the empty range 0.0..0.0
DrawPanics ==
    /\ Total(gen.weights) = 0
    /\ gen.level = "none"
    /\ gen' = [gen EXCEPT !.level = "panic"]
    /\ UNCHANGED <<quota, horizon, cfg, now, mainPc, spawned, prod, chan>>
    /\ UNCHANGED consumerVars

NextLevel == DrawLevel \/ DrawPanics

SpecLevel == InitLevel /\ [][NextLevel]_vars

Weight(w, level) ==
    CASE level = "Debug" -> w.debug
      [] level = "Info" -> w.info
      [] level = "Warn" -> w.warn
      [] level = "Error" -> w.error

RECURSIVE Cumulative(_, _)
Cumulative(w, i) == IF i = 0 THEN 0 ELSE Weight(w, Levels[i]) + Cumulative(w, i - 1)

Drawn == gen.level \in {"Debug", "Info", "Warn", "Error"}

\* C13: for weights not all zero and a roll in [0, total), the level drawn is the first
\* one, in the order Debug, Info, Warn, Error, whose cumulative weight strictly exceeds
\* the roll; a roll equal to a cumulative boundary falls in the next bucket.
FirstExceeding ==
    Drawn =>
        \E i \in 1..Len(Levels) :
            /\ gen.level = Levels[i]
            /\ Cumulative(gen.weights, i) > gen.roll
            /\ \A j \in 1..(i - 1) : Cumulative(gen.weights, j) <= gen.roll

\* The roll equals the Debug / Info boundary and Info is drawn
BoundaryWitness ==
    /\ gen.weights.debug > 0
    /\ gen.weights.info > 0
    /\ gen.roll = gen.weights.debug
    /\ gen.level = "Info"

\* C14: a level whose weight is 0 is never drawn, whichever weights are zero; with the
\* weights debug 1, info 0, warn 0, error 0 every draw gives Debug.
ZeroWeightNeverDrawn ==
    Drawn =>
        /\ Weight(gen.weights, gen.level) > 0
        /\ gen.weights = [debug |-> 1, info |-> 0, warn |-> 0, error |-> 0] => gen.level = "Debug"

ZeroWeightWitness ==
    /\ gen.weights = [debug |-> 1, info |-> 0, warn |-> 0, error |-> 0]
    /\ gen.level = "Debug"

RECURSIVE Concat(_)
Concat(batches) == IF batches = <<>> THEN <<>> ELSE Head(batches) \o Concat(Tail(batches))

CapacityFlushReturns == cpc = "flush" /\ fl.trigger = "capacity" /\ cpc' = "wait"

\* C17: for capacity >= 1 the pending batch holds fewer than capacity events whenever
\* the consumer waits; while a flush is in progress no event has been received beyond
\* the flushed ones; when a capacity-triggered flush returns, last_flush is set to that
\* instant; and no flushed batch holds more than capacity events.
BelowCapacityAtWait ==
    /\ [](Waiting => Len(entries) < cfg.capacity)
    /\ [](cpc = "flush" => received = Flat(flushed))
    /\ [](\A n \in 1..Len(flushed) : Len(flushed[n].batch) <= cfg.capacity)
    /\ [][CapacityFlushReturns => last_flush' = now' /\ received' = received]_vars

\* Back in the wait after a capacity flush that returned at a later instant than it
\* started, with one event pending below capacity 2
BelowCapacityWitness ==
    /\ Waiting
    /\ cfg.capacity = 2
    /\ Len(entries) = 1
    /\ flushed # <<>>
    /\ flushed[Len(flushed)].trigger = "capacity"
    /\ last_flush > flushed[Len(flushed)].at

\* ------------------------------------------------------------------ Buffer::flush, the batch
Queued == {chan[n] : n \in 1..Len(chan)}

InBatch(batch) == {batch[n] : n \in 1..Len(batch)}

\* C18: while a flush is in progress the pending batch is empty and the detached batch
\* is everything received and not flushed before, already so when the first sink is
\* still to be called; every call of a sink in a flush is handed that detached batch;
\* events queued in the channel during the flush are not in it.
FlushDetaches ==
    /\ cpc = "flush" =>
           /\ entries = <<>>
           /\ fl.batch = flushed[Len(flushed)].batch
           /\ Flat(flushed) = received
           /\ Queued \cap InBatch(fl.batch) = {}
           /\ \A i \in 1..Len(cfg.sinks) : i >= fl.idx => Len(sinkLog[i]) = Len(flushed) - 1
    /\ \A i \in 1..Len(cfg.sinks) : \A n \in 1..Len(sinkLog[i]) : sinkLog[i][n] = flushed[n].batch

\* The first sink has been handed the detached batch, the second is about to be, and
\* the channel holds an event of a task that started after the flush began
FlushDetachesWitness ==
    /\ cpc = "flush"
    /\ fl.idx = 2
    /\ sinkLog[1][Len(sinkLog[1])] = fl.batch
    /\ \E p \in Services :
           /\ prod[p].start > flushed[Len(flushed)].at
           /\ <<p, 1>> \in Queued

\* ------------------------------------------------------------------ sends during a flush
\* Events in send order: those received, then those queued
InSendOrder == received \o chan

\* C19: a send attempted while the receiver lives can complete exactly when the channel
\* holds fewer than ChannelCapacity events, also while a flush is in progress; the
\* consumer receives events in the order the sends completed, and the flushed batches
\* followed by the pending batch are the received events in that order, so events sent
\* during a flush come next, in send order.
SendWaitsOnlyForRoom ==
    /\ [](\A p \in Services :
             prod[p].pc = "send" /\ RxAlive =>
                 (ENABLED ProdSend(p) <=> Len(chan) < ChannelCapacity))
    /\ [](RxAlive => Flat(flushed) \o entries = received)
    /\ [][RxAlive' =>
             \/ InSendOrder' = InSendOrder
             \/ \E p \in Services : InSendOrder' = Append(InSendOrder, <<p, prod[p].seq>>)]_vars

\* A flush is in progress and two sends of a task that started after the flush began
\* have completed, filling the channel
SendDuringFlushWitness ==
    /\ cpc = "flush"
    /\ fl.idx = 1
    /\ \E p \in Services :
           /\ prod[p].start > flushed[Len(flushed)].at
           /\ chan = <<<<p, 1>>, <<p, 2>>>>

\* ------------------------------------------------------------------ Buffer::run, timeout
TimeoutFlushStarts == flushed' # flushed /\ flushed'[Len(flushed')].trigger = "timeout"

\* A flush of the capacity or the timeout arm returns
LoopFlushReturns == cpc = "flush" /\ fl.trigger \in {"capacity", "timeout"} /\ cpc' = "wait"

Max(a, b) == IF a >= b THEN a ELSE b

\* C20: a timeout-triggered flush starts only when at least flush_interval has elapsed
\* since last_flush; last_flush is only ever set to the current instant, when run starts
\* and when a capacity- or timeout-triggered flush returns; the timeout of a wait is
\* max(0, flush_interval - elapsed) and is never negative.
TimeoutAfterInterval ==
    /\ [][TimeoutFlushStarts => now >= last_flush + cfg.flush_interval]_vars
    /\ [][last_flush' # last_flush =>
             /\ last_flush' = now'
             /\ cpc = "idle" \/ LoopFlushReturns]_vars
    /\ [][LoopFlushReturns => last_flush' = now']_vars
    /\ [](/\ WaitTimeout(last_flush) >= 0
          /\ WaitTimeout(last_flush) = Max(0, cfg.flush_interval - (now - last_flush)))

\* A timeout flush in progress that started exactly flush_interval after the return of
\* the capacity flush before it
TimeoutAfterIntervalWitness ==
    /\ cpc = "flush"
    /\ fl.trigger = "timeout"
    /\ Len(flushed) = 2
    /\ flushed[1].trigger = "capacity"
    /\ last_flush > 0
    /\ flushed[2].at = last_flush + cfg.flush_interval

\* ------------------------------------------------------------------ Buffer::run, empty timeout
\* The timeout of the wait has fired (the channel is empty and open) with nothing pending
EmptyTimeoutFired == cpc = "wait" /\ chan = <<>> /\ Senders > 0 /\ now >= deadline /\ entries = <<>>

\* C21: when the timeout fires with an empty batch, the step of the consumer invokes no
\* sink and detaches no batch, leaves the pending batch and last_flush as they are, and
\* goes back to waiting with a timeout computed from that unchanged last_flush.
EmptyTimeoutDoesNothing ==
    [][EmptyTimeoutFired =>
          /\ sinkLog' = sinkLog
          /\ flushed' = flushed
          /\ entries' = entries
          /\ last_flush' = last_flush
          /\ cpc' = "wait"
          /\ deadline' # deadline => deadline' = now + Max(0, cfg.flush_interval - (now - last_flush))]_vars

\* The consumer waits again after an empty timeout: the wait was recomputed at an instant
\* later than last_flush + flush_interval, and nothing was flushed
EmptyTimeoutWitness ==
    /\ cpc = "wait"
    /\ entries = <<>>
    /\ flushed = <<>>
    /\ Senders > 0
    /\ deadline = now
    /\ now > last_flush + cfg.flush_interval

\* ------------------------------------------------------------------ Buffer::run, the timer
\* flush_interval has elapsed since last_flush
IntervalElapsed == now >= last_flush + cfg.flush_interval

\* C22: the flush timer runs from last_flush: once flush_interval has elapsed since
\* last_flush, every wait of the consumer has zero length (its timeout is already due),
\* so an event received then is flushed on the timeout arm as soon as the channel is
\* empty, without a further flush_interval; until then only queued events are added.
ZeroLengthWaits ==
    /\ [](Waiting /\ IntervalElapsed => deadline <= now)
    /\ [](Waiting /\ IntervalElapsed /\ Pending /\ chan = <<>> /\ Senders > 0 => ENABLED TimeoutFlush)
    /\ [][Waiting /\ IntervalElapsed /\ Waiting' /\ deadline' # deadline => deadline' = now]_vars

\* An event generated after flush_interval had elapsed with an empty batch is pending,
\* and the timeout of the wait is already due
ZeroLengthWitness ==
    /\ Waiting
    /\ flushed = <<>>
    /\ deadline <= now
    /\ \E p \in Services :
          /\ prod[p].start >= last_flush + cfg.flush_interval
          /\ entries = <<<<p, 1>>>>

\* ------------------------------------------------------------------ emit_logs, failed send
\* C23: when a send fails because the receiver is gone, the task leaves its loop in that
\* step: it does not sleep, generates no further log and attempts no further send, and
\* it ends as any finished task does (there is no error state); a task that has left
\* its loop does nothing more.
SendFailureEndsTask ==
    [][\A p \in Services :
          /\ prod[p].pc = "send" /\ ~RxAlive /\ prod'[p] # prod[p] =>
                prod'[p] = [prod[p] EXCEPT !.pc = "done"]
          /\ prod[p].pc = "done" => prod'[p] = prod[p]]_vars

\* A task whose last log was generated and never sent has left its loop after the
\* consumer was aborted
SendFailureWitness ==
    /\ ~RxAlive
    /\ \E p \in Services :
          /\ prod[p].pc = "done"
          /\ prod[p].seq = prod[p].sent + 1

\* ------------------------------------------------------------------ emit_logs, duration
\* Task p passes the loop check and generates a log
Generates(p) == prod'[p].seq = prod[p].seq + 1

\* Task p leaves its loop at the loop check
StopsAtCheck(p) == prod[p].pc \in {"spawned", "sleep"} /\ prod'[p].pc = "done"

\* C24: with a run duration D > 0 a task generates a log only at a loop check where less
\* than D has elapsed since its start, and a loop check where D or more has elapsed ends
\* it; with D = 0 no loop check ends a task, so it stops only when a send fails.
DurationCheck ==
    /\ [][\A p \in Services :
             /\ Generates(p) /\ cfg.duration > 0 => now - prod'[p].start < cfg.duration
             /\ StopsAtCheck(p) => cfg.duration > 0 /\ now - prod[p].start >= cfg.duration
             /\ prod'[p].pc = "done" /\ prod[p].pc # "done" /\ cfg.duration = 0 =>
                   prod[p].pc = "send" /\ ~RxAlive]_vars
    /\ [](\A p \in Services :
             prod[p].pc = "sleep" /\ cfg.duration > 0 /\ now - prod[p].start >= cfg.duration =>
                 ~ENABLED (ProdWake(p) /\ Generates(p)))

\* With D = 1, a task that sent two logs within its duration has stopped at a loop check
DurationWitness ==
    /\ cfg.duration = 1
    /\ RxAlive
    /\ \E p \in Services :
          /\ prod[p].pc = "done"
          /\ prod[p].sent = 2
          /\ now - prod[p].start >= 1

\* ------------------------------------------------------------------ generate_log, embedding
\* The message pool (build_message_pool) and the embeddings the lookup may hold
Pool == <<"m1", "m2">>

Vectors == {[i \in 1..n |-> 1] : n \in 1..MaxDim}

\* Every lookup table: a map from some of the pool's messages to their embedding
Lookups == UNION {[D -> Vectors] : D \in SUBSET {Pool[i] : i \in 1..Len(Pool)}}

\* as if a missing entry resolved to a zero vector of dimension 1
BaseEmbeddingZero(lookup, message) ==
    IF message \in DOMAIN lookup THEN lookup[message] ELSE <<0>>

\* emitter.rs:205  embeddings.get(message).cloned().unwrap_or_default()
BaseEmbedding(lookup, message) ==
    IF message \in DOMAIN lookup THEN lookup[message] ELSE <<>>

\* emitter.rs:187  the noise added to one component, in units of the scale
Noise == {-1, 0, 1}

\* emitter.rs:183-191  jitter_embedding: every component gets its own noise
JitterEmbedding(embedding) ==
    {v \in [1..Len(embedding) -> -1..2] : \A i \in 1..Len(embedding) : v[i] - embedding[i] \in Noise}

\* No LogEntry built and not yet sent
NoLog == [message |-> "none", embedding |-> <<>>]

InitEmbed ==
    /\ gen \in {[lookup |-> l, log |-> NoLog] : l \in Lookups}
    /\ quota = 0
    /\ horizon = 0
    /\ cfg = [capacity |-> 1, flush_interval |-> 1, duration |-> 0, services |-> 1, sinks |-> <<"Stdout">>]
    /\ Start

\* emitter.rs:204-215  generate_log picks a message of the pool and builds the LogEntry
GenerateLog ==
    /\ gen.log = NoLog
    /\ \E m \in 1..Len(Pool) :
          \E e \in JitterEmbedding(BaseEmbedding(gen.lookup, Pool[m])) :
              gen' = [gen EXCEPT !.log = [message |-> Pool[m], embedding |-> e]]
    /\ UNCHANGED <<quota, horizon, cfg, now, mainPc, spawned, prod, chan>>
    /\ UNCHANGED consumerVars

\* emitter.rs:231  tx.send(log) completes
SendLog ==
    /\ gen.log # NoLog
    /\ Len(chan) < ChannelCapacity
    /\ chan' = Append(chan, gen.log)
    /\ gen' = [gen EXCEPT !.log = NoLog]
    /\ UNCHANGED <<quota, horizon, cfg, now, mainPc, spawned, prod>>
    /\ UNCHANGED consumerVars

NextEmbed == GenerateLog \/ SendLog

SpecEmbed == InitEmbed /\ [][NextEmbed]_vars

EmptyWhenAbsent(log) == log.message \notin DOMAIN gen.lookup => log.embedding = <<>>

\* C25: generate_log succeeds whatever the lookup holds; a log whose message is absent
\* from the lookup carries the empty embedding (jitter of the empty vector is empty),
\* and it is sent as any other log is.
AbsentEmbeddingIsEmpty ==
    /\ gen.log = NoLog => ENABLED GenerateLog
    /\ gen.log # NoLog => EmptyWhenAbsent(gen.log)
    /\ gen.log # NoLog /\ Len(chan) < ChannelCapacity => ENABLED SendLog
    /\ \A n \in 1..Len(chan) : EmptyWhenAbsent(chan[n])

\* A log of a message absent from the lookup was sent with an empty embedding, after a
\* log with a jittered embedding of dimension 2
AbsentEmbeddingWitness ==
    /\ Len(chan) = 2
    /\ Len(chan[1].embedding) = 2
    /\ chan[2].message \notin DOMAIN gen.lookup
    /\ chan[2].embedding = <<>>

\* ------------------------------------------------------------------ emit_logs, the delay
\* Values are whole numbers: the mean interval in hundredths of a millisecond, -ln(u) in
\* hundredths (rounded), so their product is the delay in units of 1/10000 ms.

\* as if the draw could come from below EPSILON
UDrawsBelowEpsilon ==
    { [u |-> "1e-20", negLn |-> 4605], [u |-> "0.5", negLn |-> 69] }

\* emitter.rs:236  rng.gen_range(f64::EPSILON..1.0): sample points of the range with
\* their -ln, from u = EPSILON (the largest -ln) to u just below 1
UDraws ==
    { [u |-> "EPSILON", negLn |-> 3604], [u |-> "1e-9", negLn |-> 2072],
      [u |-> "1e-6", negLn |-> 1382], [u |-> "0.001", negLn |-> 691],
      [u |-> "0.01", negLn |-> 461], [u |-> "0.1", negLn |-> 230],
      [u |-> "0.25", negLn |-> 139], [u |-> "0.5", negLn |-> 69],
      [u |-> "0.75", negLn |-> 29], [u |-> "0.9", negLn |-> 11],
      [u |-> "0.99", negLn |-> 1] }

\* emitter.rs:227  mean_interval_ms = 1000.0 / rate_per_sec
MeanInterval(rate) == 100000 \div rate

\* emitter.rs:237  -mean_interval_ms * u.ln(), before the cast
DelayExact(rate, draw) == MeanInterval(rate) * draw.negLn

\* emitter.rs:237  (..) as u64: the cast drops the fraction of a millisecond
DelayMs(rate, draw) == DelayExact(rate, draw) \div 10000

InitDelay ==
    /\ gen \in {[rate |-> r, pc |-> "sent", draw |-> [u |-> "none", negLn |-> 0], delay_ms |-> 0] : r \in 1..MaxRate}
    /\ quota = 0
    /\ horizon = 0
    /\ cfg = [capacity |-> 1, flush_interval |-> 1, duration |-> 0, services |-> 1, sinks |-> <<"Stdout">>]
    /\ Start

\* emitter.rs:236-238  the send completed: draw u, compute delay_ms, start the sleep
DrawDelay ==
    /\ gen.pc = "sent"
    /\ \E d \in UDraws :
          gen' = [gen EXCEPT !.pc = "sleep", !.draw = d, !.delay_ms = DelayMs(gen.rate, d)]
    /\ UNCHANGED <<quota, horizon, cfg, now, mainPc, spawned, prod, chan>>
    /\ UNCHANGED consumerVars

\* emitter.rs:238, 229-231  the sleep ends and the next log is sent
SleepEnds ==
    /\ gen.pc = "sleep"
    /\ gen' = [gen EXCEPT !.pc = "sent"]
    /\ UNCHANGED <<quota, horizon, cfg, now, mainPc, spawned, prod, chan>>
    /\ UNCHANGED consumerVars

NextDelay == DrawDelay \/ SleepEnds

SpecDelay == InitDelay /\ [][NextDelay]_vars

SendFails(p) == prod[p].pc = "send" /\ prod'[p].pc = "done"

\* C27: the receiver lives from the creation of the channel until Buffer::run has ended,
\* so unless a sink call has aborted the consumer no send fails: a task that has left
\* its loop did so at its duration check with every log it generated sent, and when run
\* returns every task has already ended.
SendsNeverFail ==
    /\ [][\A p \in Services : SendFails(p) => cpc = "panicked"]_vars
    /\ [](cpc # "panicked" =>
             \A p \in Services :
                 prod[p].pc = "done" =>
                     /\ prod[p].sent = prod[p].seq
                     /\ cfg.duration > 0
                     /\ now - prod[p].start >= cfg.duration)
    /\ [](cpc = "done" => \A p \in 1..cfg.services : prod[p].pc = "done")

\* A task has left its loop at its duration check while a flush is in progress and
\* another task is still about to send
SendsNeverFailWitness ==
    /\ cpc = "flush"
    /\ \E p, q \in Services :
          /\ prod[p].pc = "done"
          /\ prod[p].sent >= 1
          /\ prod[q].pc = "send"

\* ------------------------------------------------------------------ no services
\* C28: with no configured services main's tx is the only sender and is dropped before
\* Buffer::run starts: run receives nothing, never takes the timeout arm (its first wait
\* is its only one), invokes no sink, and the only step it takes is to return on the
\* closed channel.
NoServicesReturnsAtOnce ==
    /\ [](cfg.services = 0 =>
             /\ cpc \in {"idle", "wait", "done"}
             /\ received = <<>> /\ flushed = <<>>
             /\ \A i \in 1..Len(cfg.sinks) : sinkLog[i] = <<>>
             /\ cpc = "wait" => Senders = 0 /\ ENABLED ClosedEmpty /\ ~ENABLED TimeoutEmpty)
    /\ [][cfg.services = 0 /\ cpc = "wait" =>
             /\ deadline' = deadline
             /\ cpc' \in {"wait", "done"}]_vars

\* Without services, run has returned although the flush interval had elapsed while it
\* was on its first wait
NoServicesWitness ==
    /\ cfg.services = 0
    /\ cpc = "done"
    /\ now >= deadline
    /\ deadline = last_flush + cfg.flush_interval

\* ------------------------------------------------------------------ DashboardSink::write
ServiceNames == {"api", "db"}

\* log_entry.rs:13-22  Display of LogLevel
LevelName(level) ==
    CASE level = "Debug" -> "DEBUG"
      [] level = "Info" -> "INFO"
      [] level = "Warn" -> "WARN"
      [] level = "Error" -> "ERROR"

\* The LogEntry fields the dashboard reads
DashEntries == [service : ServiceNames, level : {Levels[i] : i \in 1..Len(Levels)}]

DashBatches == UNION {[1..n -> DashEntries] : n \in 0..MaxBatch}

\* as if a key seen again were set to 1 instead of incremented
CountOnce(counts, key) ==
    [k \in DOMAIN counts \cup {key} |-> IF k = key THEN 1 ELSE counts[k]]

\* dashboard.rs:57-60  *map.entry(key).or_default() += 1
CountUp(counts, key) ==
    [k \in DOMAIN counts \cup {key} |->
        IF k = key THEN (IF key \in DOMAIN counts THEN counts[key] ELSE 0) + 1 ELSE counts[k]]

\* dashboard.rs:53-61  the maps after the first n entries of the batch
RECURSIVE ByService(_, _)
ByService(batch, n) ==
    IF n = 0 THEN <<>> ELSE CountUp(ByService(batch, n - 1), batch[n].service)

RECURSIVE ByLevel(_, _)
ByLevel(batch, n) ==
    IF n = 0 THEN <<>> ELSE CountUp(ByLevel(batch, n - 1), LevelName(batch[n].level))

\* dashboard.rs:63-69  the FlushEvent built for the batch
FlushEvent(batch) ==
    [total_count |-> Len(batch),
     by_service |-> ByService(batch, Len(batch)),
     by_level |-> ByLevel(batch, Len(batch))]

\* dashboard.rs:72  broadcast send: Ok(receivers) or Err when nobody is subscribed
BroadcastSend(subscribers) == IF subscribers > 0 THEN "ok" ELSE "err"

InitDash ==
    /\ gen \in {[batch |-> b, subscribers |-> s, pc |-> "call", event |-> FlushEvent(<<>>),
                 sent |-> "none", result |-> "none"] : b \in DashBatches, s \in 0..1}
    /\ quota = 0
    /\ horizon = 0
    /\ cfg = [capacity |-> 1, flush_interval |-> 1, duration |-> 0, services |-> 1, sinks |-> <<"Dashboard">>]
    /\ Start

\* dashboard.rs:51-69  write counts the batch and builds the event
DashBuild ==
    /\ gen.pc = "call"
    /\ gen' = [gen EXCEPT !.pc = "built", !.event = FlushEvent(gen.batch)]
    /\ UNCHANGED <<quota, horizon, cfg, now, mainPc, spawned, prod, chan>>
    /\ UNCHANGED consumerVars

\* dashboard.rs:72-73  let _ = self.tx.send(event); Ok(())
DashSend ==
    /\ gen.pc = "built"
    /\ gen' = [gen EXCEPT !.pc = "returned", !.sent = BroadcastSend(gen.subscribers),
                          !.result = "ok"]
    /\ UNCHANGED <<quota, horizon, cfg, now, mainPc, spawned, prod, chan>>
    /\ UNCHANGED consumerVars

NextDash == DashBuild \/ DashSend

SpecDash == InitDash /\ [][NextDash]_vars

RECURSIVE SumCounts(_, _)
SumCounts(counts, keys) ==
    IF keys = {} THEN 0
    ELSE LET k == CHOOSE x \in keys : TRUE IN counts[k] + SumCounts(counts, keys \ {k})

\* C29: DashboardSink::write returns Ok also when the broadcast send fails for want of
\* subscribers, and the FlushEvent built for a batch has total_count = the number of
\* events of the batch = the sum of the by_service counts = the sum of the by_level
\* counts.
DashboardCounts ==
    /\ gen.pc = "returned" => gen.result = "ok" /\ gen.result \in WriteOutcomes("Dashboard")
    /\ gen.pc \in {"built", "returned"} =>
          /\ gen.event.total_count = Len(gen.batch)
          /\ SumCounts(gen.event.by_service, DOMAIN gen.event.by_service) = Len(gen.batch)
          /\ SumCounts(gen.event.by_level, DOMAIN gen.event.by_level) = Len(gen.batch)

\* write returned Ok with nobody subscribed, for a batch of two events of one service
\* and two levels
DashboardWitness ==
    /\ gen.pc = "returned"
    /\ gen.sent = "err"
    /\ gen.result = "ok"
    /\ gen.event.total_count = 2
    /\ Cardinality(DOMAIN gen.event.by_service) = 1
    /\ Cardinality(DOMAIN gen.event.by_level) = 2

\* ------------------------------------------------------------------ expand_env_vars
\* Strings are sequences of characters
Chars == {"$", "{", "}", "A", "B", "x"}

Inputs == UNION {[1..n -> Chars] : n \in 0..MaxLen}

\* The values a variable of the environment may hold
EnvValues == { <<"x">>, <<"$", "{", "A", "}">>, <<"$", "{", "B", "}">> }

\* Every environment over the variables A and B (each set or unset)
Envs == UNION {[D -> EnvValues] : D \in SUBSET {<<"A">>, <<"B">>}}

\* main.rs:18  result.find("${"): index of the first "${", 0 for None
FindOpen(s) ==
    LET hits == {i \in 1..(Len(s) - 1) : s[i] = "$" /\ s[i + 1] = "{"}
    IN IF hits = {} THEN 0 ELSE CHOOSE i \in hits : \A j \in hits : i <= j

\* main.rs:19  result[start..].find('}'): index of the first '}' from start on, 0 for None
FindClose(s, start) ==
    LET hits == {i \in start..Len(s) : s[i] = "}"}
    IN IF hits = {} THEN 0 ELSE CHOOSE i \in hits : \A j \in hits : i <= j

\* main.rs:23  std::env::var(var_name).unwrap_or_default()
EnvVar(env, name) == IF name \in DOMAIN env THEN env[name] ELSE <<>>

\* main.rs:22-29  one iteration: the first ${name} is replaced by the variable's value
Substitute(env, s) ==
    LET start == FindOpen(s)
        end == FindClose(s, start)
    IN SubSeq(s, 1, start - 1) \o EnvVar(env, SubSeq(s, start + 2, end - 1)) \o SubSeq(s, end + 1, Len(s))

InitExpand ==
    /\ gen \in {[env |-> e, input |-> s, result |-> s, pc |-> "loop", odd |-> FALSE] :
                   e \in Envs, s \in Inputs}
    /\ quota = 0
    /\ horizon = 0
    /\ cfg = [capacity |-> 1, flush_interval |-> 1, duration |-> 0, services |-> 0, sinks |-> <<"Stdout">>]
    /\ Start

\* main.rs:18-30  an iteration of the while loop (odd: the parity of the iterations taken)
ExpandStep ==
    /\ gen.pc = "loop"
    /\ IF FindOpen(gen.result) = 0 THEN FALSE
       ELSE FindClose(gen.result, FindOpen(gen.result)) # 0
    /\ gen' = [gen EXCEPT !.result = Substitute(gen.env, gen.result), !.odd = ~@]
    /\ UNCHANGED <<quota, horizon, cfg, now, mainPc, spawned, prod, chan>>
    /\ UNCHANGED consumerVars

\* main.rs:18-21, 31  no "${" is left, or the first one has no '}' after it: return
ExpandReturn ==
    /\ gen.pc = "loop"
    /\ IF FindOpen(gen.result) = 0 THEN TRUE
       ELSE FindClose(gen.result, FindOpen(gen.result)) = 0
    /\ gen' = [gen EXCEPT !.pc = "done"]
    /\ UNCHANGED <<quota, horizon, cfg, now, mainPc, spawned, prod, chan>>
    /\ UNCHANGED consumerVars

NextExpand == ExpandStep \/ ExpandReturn

\* The loop keeps running: an iteration that can be taken is taken
SpecExpand == InitExpand /\ [][NextExpand]_vars /\ WF_vars(ExpandStep) /\ WF_vars(ExpandReturn)

\* C30: expand_env_vars returns for every input and every environment, also when the
\* value of a variable contains ${...} text.
ExpandTerminates == <>(gen.pc = "done")
====
